---- MODULE Spec2Model ----
(***************************************************************************)
(* A model of mspdebug's command interpreter, src/parse.c: the option      *)
(* registry, the dispatcher process_command with its interactive flag,     *)
(* the opt and help commands, the argument splitter get_arg, the reader    *)
(* loop, and the address expression evaluator addr_exp with its           *)
(* file-scope tokenizer state.                                             *)
(*                                                                         *)
(* A text is a sequence of characters, each a one-character string; a C    *)
(* string is the sequence of its characters before the terminator.         *)
(***************************************************************************)
EXTENDS Integers, Sequences, FiniteSets, TLC

VARIABLES
    option_list,       \* the registry list, head first (parse.c:33)
    interactive_call,  \* the interactive flag (parse.c:52)
    token_buf,         \* tokenizer buffer: the bytes before its terminator (parse.c:265)
    token_len,         \* parse.c:266
    token_mult,        \* parse.c:267
    token_sum,         \* parse.c:268
    ev_pc,             \* where the running addr_exp call stands: idle, loop, done
    ev_text,           \* addr_exp's argument text
    ev_pos,            \* addr_exp's cursor into text (1-based)
    ev_ret,            \* addr_exp's return value
    ev_addr,           \* what the call stored to the caller's cell *addr
    lookups,           \* the names handed to stab_get by the running evaluation
    stack,             \* the active process_command calls, innermost last
    call,              \* the latest process_command call: its arguments and how far it is
    pc_ret,            \* what that call returned
    cmd_ret,           \* what its handler returned (ret, parse.c:115)
    out,               \* lines its handler wrote to stdout
    errs,              \* lines written to stderr since the latest call began
    registered,        \* the options handed to register_option, first call first
    found,             \* the latest find_option or find_command call and its answer
    parsed,            \* the latest parse_option call and its status
    argst,             \* a caller's get_arg calls on one text: the cursor, the answers
    reader             \* reader_loop: where it stands, stdin, the lines it got and passed on

tokvars == <<token_buf, token_len, token_mult, token_sum>>
evvars == <<ev_pc, ev_text, ev_pos, ev_ret, ev_addr, lookups>>
dispvars == <<option_list, interactive_call, stack, call, pc_ret, cmd_ret, out>>
auxvars == <<registered, found, parsed, argst, reader>>
vars == <<option_list, interactive_call, token_buf, token_len, token_mult,
          token_sum, ev_pc, ev_text, ev_pos, ev_ret, ev_addr, lookups,
          stack, call, pc_ret, cmd_ret, out, errs,
          registered, found, parsed, argst, reader>>

(***************************************************************************)
(* Characters (ctype.h in the C locale).                                   *)
(***************************************************************************)
DigitSeq == <<"0", "1", "2", "3", "4", "5", "6", "7", "8", "9">>
LowerSeq == <<"a", "b", "c", "d", "e", "f", "g", "h", "i", "j", "k", "l", "m",
              "n", "o", "p", "q", "r", "s", "t", "u", "v", "w", "x", "y", "z">>
UpperSeq == <<"A", "B", "C", "D", "E", "F", "G", "H", "I", "J", "K", "L", "M",
              "N", "O", "P", "Q", "R", "S", "T", "U", "V", "W", "X", "Y", "Z">>

Range(s) == {s[i] : i \in 1..Len(s)}
IndexOf(s, c) == CHOOSE i \in 1..Len(s) : s[i] = c

isdigit(c) == c \in Range(DigitSeq)
isalpha(c) == c \in Range(LowerSeq) \cup Range(UpperSeq)
isalnum(c) == isdigit(c) \/ isalpha(c)
isspace(c) == c \in {" ", "\t", "\n", "\r", "\f"}
tolower(c) == IF c \in Range(UpperSeq) THEN LowerSeq[IndexOf(UpperSeq, c)] ELSE c

isxdigit(c) == isdigit(c) \/ tolower(c) \in {"a", "b", "c", "d", "e", "f"}
\* the value of a digit in base 10 or 16
DigitVal(c) ==
    IF isdigit(c) THEN IndexOf(DigitSeq, c) - 1
    ELSE 9 + IndexOf(LowerSeq, tolower(c))

Rep(c, n) == [i \in 1..n |-> c]

(***************************************************************************)
(* atoi and strtol(.., NULL, 16) on a term: the value of the longest       *)
(* prefix of digits of the base.  strtol first skips one "0x" or "0X"      *)
(* that a hex digit follows.  The terms of this model stay far below       *)
(* INT_MAX, where both functions are exact.                                *)
(***************************************************************************)
RECURSIVE DecPrefix(_, _, _)
DecPrefix(s, i, acc) ==
    IF i <= Len(s) /\ isdigit(s[i])
    THEN DecPrefix(s, i + 1, 10 * acc + DigitVal(s[i]))
    ELSE acc

atoi(s) == DecPrefix(s, 1, 0)

RECURSIVE HexPrefix(_, _, _)
HexPrefix(s, i, acc) ==
    IF i <= Len(s) /\ isxdigit(s[i])
    THEN HexPrefix(s, i + 1, 16 * acc + DigitVal(s[i]))
    ELSE acc

strtol16(s) ==
    IF Len(s) >= 3 /\ s[1] = "0" /\ tolower(s[2]) = "x" /\ isxdigit(s[3])
    THEN HexPrefix(s, 3, 0)
    ELSE HexPrefix(s, 1, 0)

(***************************************************************************)
(* The symbol table behind stab_get (stab.h): a fixed name -> u_int16_t    *)
(* map.  One name has 63 characters, one starts with "0x" and one is all   *)
(* digits.                                                                 *)
(***************************************************************************)
LongSym == Rep("q", 63)

SymNames == {<<"a">>, <<"b">>, <<"c">>, <<"m">>, <<"0", "x", "z">>, <<"9">>, LongSym}

SymValue(name) ==
    CASE name = <<"a">> -> 5
      [] name = <<"b">> -> 3
      [] name = <<"c">> -> 2
      [] name = <<"m">> -> 65535
      [] name = <<"0", "x", "z">> -> 9
      [] name = <<"9">> -> 100
      [] name = LongSym -> 7
      [] OTHER -> 0

\* stab_get(name, &value): 0 and the value when found, else -1
stab_get(name) ==
    IF name \in SymNames THEN [ret |-> 0, value |-> SymValue(name)]
    ELSE [ret |-> -1, value |-> 0]

(***************************************************************************)
(* The tokenizer: token_buf, token_len, token_mult and token_sum are       *)
(* file-scope statics, one instance for the process.  The operators below  *)
(* take and return them as a record tk.  token_buf is kept as the bytes    *)
(* before its terminator: token_add and the library calls read it as a C   *)
(* string and never past the terminator.                                   *)
(*                                                                         *)
(* re tells what the stab_get call does to that state besides answering:   *)
(* NoReentry, or the text of an address expression that is evaluated       *)
(* before stab_get returns.                                                *)
(***************************************************************************)
TokenBufSize == 64

NoReentry == [reenter |-> FALSE, text |-> <<>>]
Reentry(text) == [reenter |-> TRUE, text |-> text]

\* token_sum is not reset
addr_exp_init_keepsum(tk) ==
    [tk EXCEPT !.token_len = 0, !.token_mult = 1]

\* parse.c:308-310
addr_exp_init(tk) ==
    [tk EXCEPT !.token_len = 0, !.token_mult = 1, !.token_sum = 0]

\* parse.c:313-314
IsTermChar(c) == isalnum(c) \/ c \in {"_", "$", ".", ":"}

\* the character is stored whatever the length
buf_put_nobound(tk, c) ==
    [tk EXCEPT !.token_buf = SubSeq(tk.token_buf, 1, tk.token_len) \o <<c>>,
               !.token_len = tk.token_len + 1]

\* parse.c:315-316
buf_put(tk, c) ==
    IF tk.token_len + 1 < TokenBufSize
    THEN [tk EXCEPT !.token_buf = SubSeq(tk.token_buf, 1, tk.token_len) \o <<c>>,
                    !.token_len = tk.token_len + 1]
    ELSE tk

\* every separator but '-' sets the sign to +1
sep_mult_reset(mult, c) ==
    IF c = "-" THEN -1 ELSE 1

\* parse.c:320-323
sep_mult(mult, c) ==
    IF c = "-" THEN -1
    ELSE IF c = "+" THEN 1
    ELSE mult

\* the hex rule is missing
token_kind_nohex(buf) ==
    IF \A i \in 1..Len(buf) : isdigit(buf[i]) THEN "dec" ELSE "sym"

\* parse.c:281-297: which rule resolves the terminated token
token_kind(buf) ==
    IF \A i \in 1..Len(buf) : isdigit(buf[i]) THEN "dec"
    ELSE IF Len(buf) >= 2 /\ buf[1] = "0" /\ tolower(buf[2]) = "x" THEN "hex"
    ELSE "sym"

\* the sum is stored unmasked
addr_result_nomask(sum) == sum

\* parse.c:332
addr_result(sum) == sum % 65536

RECURSIVE addr_exp_loop(_, _, _)

\* parse.c:297: the tokenizer and stderr when stab_get returns
resolver_effect(t0, re) ==
    IF re.reenter
    THEN addr_exp_loop(addr_exp_init(t0), re.text, NoReentry)
    ELSE [tk |-> t0, err |-> <<>>]

\* parse.c:297-303: the answer got of stab_get for the token buf
token_sym(eff, buf, got) ==
    IF got.ret = 0
    THEN [tk |-> [eff.tk EXCEPT !.token_sum = @ + eff.tk.token_mult * got.value],
          ret |-> 0, err |-> eff.err, calls |-> <<buf>>]
    ELSE [tk |-> eff.tk, ret |-> -1,
          err |-> eff.err \o << <<"unknown token", eff.tk.token_buf>> >>,
          calls |-> <<buf>>]

\* parse.c:278-303: the token buf, terminated, with token_len reset in t0
token_resolve(t0, buf, kind, re) ==
    IF kind = "dec"
    THEN [tk |-> [t0 EXCEPT !.token_sum = @ + t0.token_mult * atoi(buf)],
          ret |-> 0, err |-> <<>>, calls |-> <<>>]
    ELSE IF kind = "hex"
    THEN [tk |-> [t0 EXCEPT !.token_sum =
                      @ + t0.token_mult * strtol16(SubSeq(buf, 3, Len(buf)))],
          ret |-> 0, err |-> <<>>, calls |-> <<>>]
    ELSE token_sym(resolver_effect(t0, re), buf, stab_get(buf))

\* parse.c:270-304
token_add(tk, re) ==
    IF tk.token_len = 0
    THEN [tk |-> tk, ret |-> 0, err |-> <<>>, calls |-> <<>>]
    ELSE token_resolve(
           [tk EXCEPT !.token_buf = SubSeq(tk.token_buf, 1, tk.token_len),
                      !.token_len = 0],
           SubSeq(tk.token_buf, 1, tk.token_len),
           token_kind(SubSeq(tk.token_buf, 1, tk.token_len)),
           re)

\* parse.c:318-323: after token_add returned r on the separator c
after_sep(r, c) ==
    IF r.ret < 0 THEN r
    ELSE [r EXCEPT !.tk.token_mult = sep_mult(r.tk.token_mult, c)]

\* token_add's status is not looked at
addr_exp_char_nocheck(tk, c, re) ==
    IF IsTermChar(c)
    THEN [tk |-> buf_put(tk, c), ret |-> 0, err |-> <<>>, calls |-> <<>>]
    ELSE after_sep([token_add(tk, re) EXCEPT !.ret = 0], c)

\* parse.c:313-324: the loop body on one character
addr_exp_char(tk, c, re) ==
    IF IsTermChar(c)
    THEN [tk |-> buf_put(tk, c), ret |-> 0, err |-> <<>>, calls |-> <<>>]
    ELSE after_sep(token_add(tk, re), c)

\* parse.c:329-333: after the last token_add returned r.  written tells
\* whether *addr was stored
addr_exp_finish(r) ==
    IF r.ret < 0
    THEN [tk |-> r.tk, ret |-> -1, written |-> FALSE, addr |-> 0,
          err |-> r.err, calls |-> r.calls]
    ELSE [tk |-> r.tk, ret |-> 0, written |-> TRUE,
          addr |-> addr_result(r.tk.token_sum),
          err |-> r.err, calls |-> r.calls]

\* parse.c:329-333: after the loop
addr_exp_end(tk, re) == addr_exp_finish(token_add(tk, re))

\* what b did and wrote, put after what a wrote
Then(a, b) == [b EXCEPT !.err = a.err \o @, !.calls = a.calls \o @]

\* parse.c:312-327: the loop over the characters i..j of text, i <= j, cut
\* in halves; a is what the first half gave
RECURSIVE addr_exp_range(_, _, _, _, _)
addr_exp_rest(a, text, i, j, re) ==
    IF a.ret < 0 THEN a ELSE Then(a, addr_exp_range(a.tk, text, i, j, re))

addr_exp_range(tk, text, i, j, re) ==
    IF i = j THEN addr_exp_char(tk, text[i], re)
    ELSE addr_exp_rest(addr_exp_range(tk, text, i, (i + j) \div 2, re),
                       text, ((i + j) \div 2) + 1, j, re)

\* parse.c:318-319, 329-333: a is what the loop gave
addr_exp_after(a, re) ==
    IF a.ret < 0
    THEN [tk |-> a.tk, ret |-> -1, written |-> FALSE, addr |-> 0,
          err |-> a.err, calls |-> a.calls]
    ELSE Then(a, addr_exp_end(a.tk, re))

\* parse.c:312-333: addr_exp after its first three lines
addr_exp_loop(tk, text, re) ==
    addr_exp_after(
        IF text = <<>>
        THEN [tk |-> tk, ret |-> 0, err |-> <<>>, calls |-> <<>>]
        ELSE addr_exp_range(tk, text, 1, Len(text), re),
        re)

\* parse.c:306-334
addr_exp(tk, text) == addr_exp_loop(addr_exp_init(tk), text, NoReentry)

(***************************************************************************)
(* Texts, names and the two tables.                                        *)
(***************************************************************************)
Lower(s) == [i \in 1..Len(s) |-> tolower(s[i])]

\* strcasecmp(a, b) == 0
strcasecmp0(a, b) == Lower(a) = Lower(b)

\* the character at C index i of the string s, "" for its terminator
CharAt(s, i) == IF i < Len(s) THEN s[i + 1] ELSE ""

RECURSIVE SkipSpace(_, _)
SkipSpace(s, i) == IF i <= Len(s) /\ isspace(s[i]) THEN SkipSpace(s, i + 1) ELSE i

RECURSIVE SkipWord(_, _)
SkipWord(s, i) == IF i <= Len(s) /\ ~isspace(s[i]) THEN SkipWord(s, i + 1) ELSE i

\* only the character that ends the token is passed over
get_arg_from_noskip(text, start, end) ==
    [found |-> TRUE, tok |-> SubSeq(text, start, end - 1),
     rest |-> SubSeq(text, end + 1, Len(text))]

\* parse.c:74-83: the token starts at start and ends before end
get_arg_from(text, start, end) ==
    [found |-> TRUE, tok |-> SubSeq(text, start, end - 1),
     rest |-> SubSeq(text, SkipSpace(text, end), Len(text))]

\* parse.c:71-83: start is where the leading whitespace ends
get_arg_at(text, start) ==
    IF start > Len(text)
    THEN [found |-> FALSE, tok |-> <<>>, rest |-> text]
    ELSE get_arg_from(text, start, SkipWord(text, start))

\* parse.c:59-84 on the string at the cursor: the token and the new cursor
get_arg(text) == get_arg_at(text, SkipSpace(text, 1))

\* parse.c:100-104
RECURSIVE TrimLen(_, _)
TrimLen(s, len) == IF len > 0 /\ isspace(s[len]) THEN TrimLen(s, len - 1) ELSE len

\* the line is taken as it is
StripTrailing_none(arg) == arg

StripTrailing(arg) == SubSeq(arg, 1, TrimLen(arg, Len(arg)))

\* the command table all_commands of the application: help and opt are the
\* handlers of parse.c, read runs the lines of a file through process_command
all_commands ==
    << [name |-> <<"h", "e", "l", "p">>, func |-> "cmd_help"],
       [name |-> <<"o", "p", "t">>, func |-> "cmd_opt"],
       [name |-> <<"r", "e", "a", "d">>, func |-> "cmd_read"] >>

\* parse.c:86-95: the index of the first entry of that name, 0 for NULL
find_command(name) ==
    LET hits == {i \in 1..Len(all_commands) : strcasecmp0(name, all_commands[i].name)}
    IN IF hits = {} THEN 0 ELSE CHOOSE i \in hits : \A j \in hits : i <= j

\* the scan goes on to the last option of that name
find_option_last(list, name) ==
    LET hits == {i \in 1..Len(list) : strcasecmp0(list[i].name, name)}
    IN IF hits = {} THEN 0 ELSE CHOOSE i \in hits : \A j \in hits : i >= j

\* parse.c:41-50: the index into the list of the first option of that name
find_option(list, name) ==
    LET hits == {i \in 1..Len(list) : strcasecmp0(list[i].name, name)}
    IN IF hits = {} THEN 0 ELSE CHOOSE i \in hits : \A j \in hits : i <= j

\* the option is put at the tail of the list
register_option_tail(list, o) == list \o <<o>>

\* parse.c:35-39
register_option(list, o) == <<o>> \o list

\* parse.c:411-415
option_color == [name |-> <<"c", "o", "l", "o", "r">>, type |-> "boolean", data |-> 0]

\* options other parts of the application register: one numeric, one text
option_num == [name |-> <<"n", "u", "m">>, type |-> "numeric", data |-> 0]
option_txt == [name |-> <<"t", "x", "t">>, type |-> "text", data |-> <<>>]

AppOptions == {option_num, option_txt}

\* sizeof(o->data.text), parse.h
OptTextSize == 128

(***************************************************************************)
(* printf's %x, %d and %32s.                                               *)
(***************************************************************************)
HexDigitSeq == <<"0", "1", "2", "3", "4", "5", "6", "7", "8", "9",
                 "a", "b", "c", "d", "e", "f">>

RECURSIVE FmtBase(_, _)
FmtBase(n, base) ==
    IF n < base THEN <<HexDigitSeq[n + 1]>>
    ELSE FmtBase(n \div base, base) \o <<HexDigitSeq[(n % base) + 1]>>

\* the value is printed in decimal after 0x
FmtHex_decimal(n) == FmtBase(n, 10)

FmtHex(n) == FmtBase(n, 16)
FmtDec(n) == IF n < 0 THEN <<"-">> \o FmtBase(-n, 10) ELSE FmtBase(n, 10)
Pad32(s) == IF Len(s) < 32 THEN Rep(" ", 32 - Len(s)) \o s ELSE s

\* parse.c:336-356: the line display_option prints
display_option(o) ==
    Pad32(o.name) \o <<" ", "=", " ">> \o
    ( CASE o.type = "boolean" ->
             IF o.data # 0 THEN <<"t", "r", "u", "e">> ELSE <<"f", "a", "l", "s", "e">>
        [] o.type = "numeric" ->
             <<"0", "x">> \o FmtHex(o.data) \o <<" ", "(">> \o FmtDec(o.data) \o <<")">>
        [] o.type = "text" -> o.data )

\* any digit counts as true
parse_boolean_anydigit(word) ==
    IF \/ isdigit(CharAt(word, 0))
       \/ CharAt(word, 0) = "t"
       \/ CharAt(word, 0) = "y"
       \/ (CharAt(word, 0) = "o" /\ CharAt(word, 1) = "n")
    THEN 1 ELSE 0

\* parse.c:362-364
parse_boolean(word) ==
    IF \/ (isdigit(CharAt(word, 0)) /\ CharAt(word, 0) # "0")
       \/ CharAt(word, 0) = "t"
       \/ CharAt(word, 0) = "y"
       \/ (CharAt(word, 0) = "o" /\ CharAt(word, 1) = "n")
    THEN 1 ELSE 0

\* strncpy(dst, src, n): the n bytes written to dst, "" being the zero byte
strncpy(src, n) == [i \in 1..n |-> IF i <= Len(src) THEN src[i] ELSE ""]

\* the last byte is left as strncpy wrote it
text_terminate_none(buf) == buf

\* parse.c:372: o->data.text[sizeof(o->data.text) - 1] = 0
text_terminate(buf) == [buf EXCEPT ![OptTextSize] = ""]

\* parse.c:371-372: the bytes of o->data.text afterwards
text_buffer(word) == text_terminate(strncpy(word, OptTextSize))

\* the C string at the start of the bytes: those before the first zero byte
cstr(buf) ==
    LET Z == {i \in 1..Len(buf) : buf[i] = ""}
    IN IF Z = {} THEN buf
       ELSE SubSeq(buf, 1, (CHOOSE i \in Z : \A j \in Z : i <= j) - 1)

\* parse.c:371-372: the text stored
parse_text(word) == cstr(text_buffer(word))

\* parse.c:368: r is what addr_exp(word, &o->data.numeric) gave
parse_numeric(o, r) ==
    [o |-> IF r.written THEN [o EXCEPT !.data = r.addr] ELSE o,
     ret |-> r.ret, tk |-> r.tk, err |-> r.err]

\* parse.c:358-377: the option afterwards, the status, the tokenizer afterwards
parse_option(o, word, tk) ==
    CASE o.type = "boolean" ->
           [o |-> [o EXCEPT !.data = parse_boolean(word)], ret |-> 0, tk |-> tk,
            err |-> <<>>]
      [] o.type = "numeric" -> parse_numeric(o, addr_exp(tk, word))
      [] o.type = "text" ->
           [o |-> [o EXCEPT !.data = parse_text(word)], ret |-> 0, tk |-> tk,
            err |-> <<>>]

\* only the next word is parsed
opt_value_word(rest) == get_arg(rest).tok

\* parse.c:394: the word parse_option is given, the string at the cursor
opt_value(rest) == rest

\* what cmd_opt gives when it changes and writes nothing
OptNothing(list, tk) ==
    [ret |-> 0, list |-> list, tk |-> tk, err |-> <<>>, out |-> <<>>, fault |-> FALSE]

\* parse.c:394-398: r is what parse_option gave for the option at opt
cmd_opt_parsed(r, rest, opt, list) ==
    IF r.ret < 0
    THEN [ret |-> -1, list |-> [list EXCEPT ![opt] = r.o], tk |-> r.tk,
          err |-> r.err \o << <<"opt: can't parse option", rest>> >>,
          out |-> <<>>, fault |-> FALSE]
    ELSE [ret |-> 0, list |-> [list EXCEPT ![opt] = r.o], tk |-> r.tk,
          err |-> r.err, out |-> <<>>, fault |-> FALSE]

\* the unknown name is reported and cmd_opt goes on
cmd_opt_body_noreturn(a, opt, list, tk) ==
    IF a.rest # <<>>
    THEN IF opt = 0 THEN [OptNothing(list, tk) EXCEPT !.fault = TRUE]
         ELSE cmd_opt_parsed(parse_option(list[opt], opt_value(a.rest), tk),
                             a.rest, opt, list)
    ELSE IF a.found /\ opt = 0
    THEN [OptNothing(list, tk) EXCEPT
            !.ret = -1, !.err = << <<"opt: no such option", a.tok>> >>]
    ELSE IF a.found
    THEN [OptNothing(list, tk) EXCEPT !.out = <<display_option(list[opt])>>]
    ELSE [OptNothing(list, tk) EXCEPT
            !.out = [i \in 1..Len(list) |-> display_option(list[i])]]

\* parse.c:384-408: a is what get_arg gave, opt the option found (0: NULL).
\* fault: the call parse_option(NULL, ..) of line 394 when no name was given
cmd_opt_body(a, opt, list, tk) ==
    IF a.found /\ opt = 0
    THEN [OptNothing(list, tk) EXCEPT
            !.ret = -1, !.err = << <<"opt: no such option", a.tok>> >>]
    ELSE IF a.rest # <<>>
    THEN IF opt = 0 THEN [OptNothing(list, tk) EXCEPT !.fault = TRUE]
         ELSE cmd_opt_parsed(parse_option(list[opt], opt_value(a.rest), tk),
                             a.rest, opt, list)
    ELSE IF a.found
    THEN [OptNothing(list, tk) EXCEPT !.out = <<display_option(list[opt])>>]
    ELSE [OptNothing(list, tk) EXCEPT
            !.out = [i \in 1..Len(list) |-> display_option(list[i])]]

\* parse.c:381-391: a is what get_arg gave
cmd_opt_named(a, list, tk) ==
    cmd_opt_body(a, IF a.found THEN find_option(list, a.tok) ELSE 0, list, tk)

\* parse.c:379-409: the opt command on the argument string arg
cmd_opt(arg, list, tk) == cmd_opt_named(get_arg(arg), list, tk)

\* parse.c:199-262: topic is what get_arg gave, cmd and opt what was found.
\* The listing's layout is left out
cmd_help_body(topic, cmd, opt, list) ==
    IF topic.found
    THEN IF cmd = 0 /\ opt = 0
         THEN [ret |-> -1, err |-> << <<"help: unknown command", topic.tok>> >>,
               out |-> <<>>]
         ELSE [ret |-> 0, err |-> <<>>,
               out |-> (IF cmd # 0 THEN << <<"C", "O", "M", "M", "A", "N", "D", ":", " ">>
                                            \o all_commands[cmd].name >> ELSE <<>>)
                    \o (IF opt # 0 THEN << <<"O", "P", "T", "I", "O", "N", ":", " ">>
                                            \o list[opt].name >> ELSE <<>>)]
    ELSE [ret |-> 0, err |-> <<>>,
          out |-> << <<"A", "v", "a", "i", "l", "a", "b", "l", "e">> >>]

\* parse.c:197-201
cmd_help_topic(topic, list) ==
    cmd_help_body(topic,
                  IF topic.found THEN find_command(topic.tok) ELSE 0,
                  IF topic.found THEN find_option(list, topic.tok) ELSE 0,
                  list)

\* parse.c:195-263: the help command
cmd_help(arg, list) == cmd_help_topic(get_arg(arg), list)

(***************************************************************************)
(* The expression texts a caller passes to addr_exp: every text of up to   *)
(* MaxTerms terms joined by one separator each, and the texts below.       *)
(***************************************************************************)
MaxTerms == 2

Terms == {<<"2">>, <<"0", "x", "1", "0">>, <<"a">>, <<"z", "z">>}
Seps == {"+", "-", " "}

RECURSIVE TextsOf(_)
TextsOf(n) ==
    IF n = 1 THEN Terms
    ELSE {t \o <<s>> \o u : t \in TextsOf(n - 1), s \in Seps, u \in Terms}

UnknownSym == <<"u", "n", "k", "n", "o", "w", "n", "_", "s", "y", "m">>

MoreTexts ==
    { <<>>,
      <<"1", "0">>,
      <<"7", "0", "0", "0", "0">>,
      <<"0", "-", "1">>,
      <<"0", "-", "1", "+", "7", "0", "0", "0", "1">>,
      <<"-", "5">>,
      <<"a", "+", "b", "-", "c">>,
      <<"0", "x", "1", "0", "-", "1">>,
      <<"5", "-", "1", " ", "2">>,
      <<"5", "-", "-", "3">>,
      <<"2", "*", "3">>,
      <<"+", " ", "3">>,
      <<"m", "+", "1">>,
      <<"0", "x">>,
      <<"0", "x", "z">>,
      <<"0", "X", "1", "f">>,
      <<"0", "x", "0", "x", "1", "0">>,
      <<"9">>,
      <<"1", "2", "a", "b">>,
      <<"a", "+", "z", "z", "+", "2">>,
      UnknownSym \o <<"+", "1">>,
      <<"2", "+">> \o UnknownSym,
      <<"2", "+">> \o Rep("q", 70) \o <<"-", "1">>,
      Rep("q", 70),
      Rep("q", 62) \o <<"-">> \o Rep("q", 64) \o <<"z">>,
      Rep("y", 66) \o <<"-", "1">> }

ExprTexts == UNION {TextsOf(n) : n \in 1..MaxTerms} \cup MoreTexts

\* ev_addr while the call has stored nothing to *addr; <<v>> once it stored v
NotStored == <<>>

tokens == [token_buf |-> token_buf, token_len |-> token_len,
           token_mult |-> token_mult, token_sum |-> token_sum]

SetTokens(tk) ==
    /\ token_buf' = tk.token_buf
    /\ token_len' = tk.token_len
    /\ token_mult' = tk.token_mult
    /\ token_sum' = tk.token_sum

(***************************************************************************)
(* addr_exp, one loop iteration at a step.                                 *)
(***************************************************************************)
\* parse.c:306-310: a caller enters addr_exp(text, &addr)
EvalStart ==
    /\ ev_pc \in {"idle", "done"}
    /\ \E text \in ExprTexts :
         /\ ev_text' = text
         /\ SetTokens(addr_exp_init(tokens))
    /\ ev_pos' = 1
    /\ ev_pc' = "loop"
    /\ ev_ret' = 0
    /\ ev_addr' = NotStored
    /\ lookups' = <<>>
    /\ errs' = <<>>
    /\ UNCHANGED dispvars
    /\ UNCHANGED auxvars

\* parse.c:312-327: one iteration of the loop, stab_get answering as re tells
EvalCharWith(re) ==
    /\ ev_pc = "loop"
    /\ ev_pos <= Len(ev_text)
    /\ LET r == addr_exp_char(tokens, ev_text[ev_pos], re)
       IN /\ SetTokens(r.tk)
          /\ lookups' = lookups \o r.calls
          /\ errs' = errs \o r.err
          /\ IF r.ret < 0
             THEN ev_pc' = "done" /\ ev_ret' = -1 /\ ev_pos' = ev_pos
             ELSE ev_pc' = "loop" /\ ev_ret' = ev_ret /\ ev_pos' = ev_pos + 1
    /\ UNCHANGED <<ev_text, ev_addr>>
    /\ UNCHANGED dispvars
    /\ UNCHANGED auxvars

\* parse.c:329-333: the end of the text
EvalEndWith(re) ==
    /\ ev_pc = "loop"
    /\ ev_pos > Len(ev_text)
    /\ LET r == addr_exp_end(tokens, re)
       IN /\ SetTokens(r.tk)
          /\ lookups' = lookups \o r.calls
          /\ errs' = errs \o r.err
          /\ ev_ret' = r.ret
          /\ ev_addr' = IF r.written THEN <<r.addr>> ELSE ev_addr
    /\ ev_pc' = "done"
    /\ UNCHANGED <<ev_text, ev_pos>>
    /\ UNCHANGED dispvars
    /\ UNCHANGED auxvars

EvalChar == EvalCharWith(NoReentry)
EvalEnd == EvalEndWith(NoReentry)

(***************************************************************************)
(* The dispatcher.  A caller (the reader loop or main at the top level, a  *)
(* running read handler below it) passes a line to process_command, which  *)
(* either returns at once or invokes the handler of the command; the       *)
(* handler runs and process_command returns.                               *)
(***************************************************************************)
MaxDepth == 2

\* the lines a top-level caller passes
Lines ==
    { <<>>,
      <<" ", "\n">>,
      <<"o", "p", "t">>,
      <<" ", " ", "O", "P", "T", " ", "\n">>,
      <<"o", "p", "t", " ", "c", "o", "l", "o", "r">>,
      <<"o", "p", "t", " ", "c", "o", "l", "o", "r", " ", "1">>,
      <<"o", "p", "t", " ", "C", "o", "l", "o", "r", " ", "o", "f", "f">>,
      <<"o", "p", "t", " ", "n", "u", "m">>,
      <<"o", "p", "t", " ", "n", "u", "m", " ", "0", "x", "1", "0", "-", "1">>,
      <<"o", "p", "t", " ", "n", "u", "m", " ", "z", "z", "+", "1">>,
      <<"o", "p", "t", " ", "N", "U", "M", " ", "2", " ", "+", "3">>,
      <<"o", "p", "t", " ", "t", "x", "t", " ", "a", " ", " ", "b">>,
      <<"o", "p", "t", " ", "n", "o", "s", "u", "c", "h">>,
      <<"o", "p", "t", " ", "n", "o", "s", "u", "c", "h", " ", "1">>,
      <<"h", "e", "l", "p">>,
      <<"h", "e", "l", "p", " ", "o", "p", "t">>,
      <<"h", "e", "l", "p", " ", "b", "o", "g", "u", "s">>,
      <<"r", "e", "a", "d">>,
      <<"r", "e", "a", "d", " ", " ", "f", " ", " ", "g", " ", "\t", "\n">>,
      <<"b", "o", "g", "u", "s">>,
      <<" ", "f", "r", "o", "b", " ", "c", "o", "l", "o", "r", " ", "1", "\n">> }

\* the lines of the files the read handler runs
NestedLines ==
    { <<>>,
      <<"o", "p", "t", " ", "c", "o", "l", "o", "r", " ", "1">>,
      <<"o", "p", "t", " ", "n", "u", "m", " ", "z", "z", "+", "1">>,
      <<"o", "p", "t", " ", "n", "u", "m", " ", "0", "x", "1", "0", "-", "1">>,
      <<"r", "e", "a", "d">>,
      <<"b", "o", "g", "u", "s">>,
      <<"h", "e", "l", "p", " ", "b", "o", "g", "u", "s">> }

\* before the first find_option or find_command call
NoFind == [what |-> "none", name |-> <<>>, hit |-> <<>>, regs |-> 0]

\* before the first parse_option call
NoParse == [name |-> <<>>, type |-> "none", word |-> <<>>, ret |-> 0, buf |-> <<>>]

\* before a caller's first get_arg call
NoArgs == [text |-> <<>>, cursor |-> <<>>, got |-> <<>>]

\* before reader_loop is entered
NoReader == [pc |-> "out", input |-> <<>>, stdin |-> <<>>, eof |-> FALSE, buf |-> <<>>,
             acquired |-> <<>>, passed |-> <<>>, errors |-> 0]

NoCall == [line |-> <<>>, interactive |-> 0, st |-> "idle", cmd |-> 0]

\* parse.c:107-108: a is what get_arg gave
dispatch_of(a) ==
    [found |-> a.found, tok |-> a.tok, rest |-> a.rest,
     cmd |-> IF a.found THEN find_command(a.tok) ELSE 0]

\* parse.c:100-108: the line's command, if it names one
dispatch(line) == dispatch_of(get_arg(StripTrailing(line)))

\* the flag is left as the handler's call set it
restore_flag_none(old, now) == now

\* parse.c:116: the flag after the handler returned
restore_flag(old, now) == old

\* the handler's status is passed on
handled_status_passed(ret) == ret

\* parse.c:117: process_command's status after the handler returned ret
handled_status(ret) == 0

\* an unknown command is not reported as a failure
unknown_status_ok(tok) == 0

\* parse.c:122: process_command's status when no command has the name
unknown_status(tok) == -1

\* parse.c:35-39, 425-428: parse_init registers color, the application the rest
RegisterOption ==
    /\ call.st = "idle"
    /\ \E o \in {option_color} \cup AppOptions :
         /\ \A i \in 1..Len(option_list) : option_list[i].name # o.name
         /\ option_list' = register_option(option_list, o)
         /\ registered' = Append(registered, o)
    /\ UNCHANGED <<interactive_call, stack, call, pc_ret, cmd_ret, out, errs>>
    /\ UNCHANGED <<found, parsed, argst, reader>>
    /\ UNCHANGED tokvars
    /\ UNCHANGED evvars

NewCall(line, interactive) ==
    /\ call' = [line |-> line, interactive |-> interactive, st |-> "pending", cmd |-> 0]
    /\ pc_ret' = 0
    /\ cmd_ret' = 0
    /\ out' = <<>>
    /\ errs' = <<>>
    /\ UNCHANGED <<option_list, interactive_call, stack>>
    /\ UNCHANGED tokvars
    /\ UNCHANGED evvars

\* parse.c:160-177 and the application's main: a line for process_command
TopCall ==
    /\ stack = <<>>
    /\ call.st \in {"idle", "done"}
    /\ Len(option_list) = Cardinality({option_color} \cup AppOptions)
    /\ \E line \in Lines, interactive \in {0, 1} : NewCall(line, interactive)
    /\ UNCHANGED auxvars

\* the read handler passes a line of its file to process_command
NestedCall ==
    /\ stack # <<>>
    /\ stack[Len(stack)].func = "cmd_read"
    /\ call.st \in {"active", "done"}
    /\ Len(stack) < MaxDepth
    /\ \E line \in NestedLines, interactive \in {0, 1} : NewCall(line, interactive)
    /\ UNCHANGED auxvars

\* parse.c:97-115, 120-125: process_command up to the call of the handler
ProcessCommand ==
    /\ call.st = "pending"
    /\ LET d == dispatch(call.line)
       IN IF ~d.found
          THEN /\ pc_ret' = 0
               /\ call' = [call EXCEPT !.st = "done"]
               /\ UNCHANGED <<stack, interactive_call, errs>>
          ELSE IF d.cmd = 0
          THEN /\ errs' = errs \o << <<"unknown command", d.tok>> >>
               /\ pc_ret' = unknown_status(d.tok)
               /\ call' = [call EXCEPT !.st = "done"]
               /\ UNCHANGED <<stack, interactive_call>>
          ELSE /\ stack' = Append(stack,
                     [func |-> all_commands[d.cmd].func, cmd |-> d.cmd,
                      old |-> interactive_call, interactive |-> call.interactive,
                      arg |-> d.rest, line |-> call.line])
               /\ interactive_call' = call.interactive
               /\ call' = [call EXCEPT !.st = "active", !.cmd = d.cmd]
               /\ UNCHANGED <<pc_ret, errs>>
    /\ UNCHANGED <<option_list, cmd_ret, out>>
    /\ UNCHANGED tokvars
    /\ UNCHANGED evvars
    /\ UNCHANGED auxvars

\* parse.c:116-117: the handler returned ret to the innermost call
Return(ret) ==
    LET f == stack[Len(stack)]
    IN /\ cmd_ret' = ret
       /\ interactive_call' = restore_flag(f.old, interactive_call)
       /\ pc_ret' = handled_status(ret)
       /\ stack' = SubSeq(stack, 1, Len(stack) - 1)
       /\ call' = [line |-> f.line, interactive |-> f.interactive, st |-> "done",
                   cmd |-> f.cmd]

\* parse.c:115-117 with cmd_opt, parse.c:379-409
CmdOpt ==
    /\ call.st = "active"
    /\ stack[Len(stack)].func = "cmd_opt"
    /\ LET r == cmd_opt(stack[Len(stack)].arg, option_list, tokens)
       IN IF r.fault
          THEN /\ call' = [call EXCEPT !.st = "fault"]
               /\ UNCHANGED <<option_list, interactive_call, stack, pc_ret, cmd_ret,
                              out, errs>>
               /\ UNCHANGED tokvars
          ELSE /\ option_list' = r.list
               /\ SetTokens(r.tk)
               /\ errs' = errs \o r.err
               /\ out' = r.out
               /\ Return(r.ret)
    /\ UNCHANGED evvars
    /\ UNCHANGED auxvars

\* parse.c:115-117 with cmd_help, parse.c:195-263
CmdHelp ==
    /\ call.st = "active"
    /\ stack[Len(stack)].func = "cmd_help"
    /\ LET r == cmd_help(stack[Len(stack)].arg, option_list)
       IN /\ errs' = errs \o r.err
          /\ out' = r.out
          /\ Return(r.ret)
    /\ UNCHANGED option_list
    /\ UNCHANGED tokvars
    /\ UNCHANGED evvars
    /\ UNCHANGED auxvars

\* parse.c:115-117 with the read handler, which returns either status
CmdRead ==
    /\ stack # <<>>
    /\ call.st \in {"active", "done"}
    /\ stack[Len(stack)].func = "cmd_read"
    /\ \E ret \in {0, -1} : Return(ret)
    /\ UNCHANGED <<option_list, out, errs>>
    /\ UNCHANGED tokvars
    /\ UNCHANGED evvars
    /\ UNCHANGED auxvars

Init ==
    /\ option_list = <<>>
    /\ interactive_call = 0
    /\ token_buf = <<>>
    /\ token_len = 0
    /\ token_mult = 0
    /\ token_sum = 0
    /\ ev_pc = "idle"
    /\ ev_text = <<>>
    /\ ev_pos = 1
    /\ ev_ret = 0
    /\ ev_addr = NotStored
    /\ lookups = <<>>
    /\ stack = <<>>
    /\ call = NoCall
    /\ pc_ret = 0
    /\ cmd_ret = 0
    /\ out = <<>>
    /\ errs = <<>>
    /\ registered = <<>>
    /\ found = NoFind
    /\ parsed = NoParse
    /\ argst = NoArgs
    /\ reader = NoReader

NextEval == EvalStart \/ EvalChar \/ EvalEnd

SpecEval == Init /\ [][NextEval]_vars

(***************************************************************************)
(* The same evaluator with a symbol resolver that itself evaluates an      *)
(* address expression before it answers: a nested addr_exp call on the     *)
(* same file-scope tokenizer (parse.c:265-268), made while token_add of    *)
(* the outer call waits for stab_get at parse.c:297.                       *)
(***************************************************************************)
NestedTexts == {<<"2", "-", "3">>, <<"b">>, <<"z", "z">>}

\* the step's token_add reaches stab_get
AtLookup ==
    /\ ev_pc = "loop"
    /\ token_len > 0
    /\ token_kind(SubSeq(token_buf, 1, token_len)) = "sym"
    /\ (ev_pos <= Len(ev_text) => ~IsTermChar(ev_text[ev_pos]))

EvalCharNested == AtLookup /\ \E t \in NestedTexts : EvalCharWith(Reentry(t))
EvalEndNested == AtLookup /\ \E t \in NestedTexts : EvalEndWith(Reentry(t))

NextNested == EvalStart \/ EvalChar \/ EvalEnd \/ EvalCharNested \/ EvalEndNested

SpecNested == Init /\ [][NextNested]_vars

(***************************************************************************)
(* The registry by itself: any options registered in any order, names      *)
(* repeated, then looked up and listed.                                    *)
(***************************************************************************)
MaxRegs == 3

\* the option objects callers register; some names differ only in case
RegPool ==
    { option_color, option_num, option_txt,
      [name |-> <<"C", "O", "L", "O", "R">>, type |-> "numeric", data |-> 42],
      [name |-> <<"N", "u", "m">>, type |-> "text", data |-> <<"x">>] }

\* the names callers look up
OptionQueries ==
    { <<"c", "o", "l", "o", "r">>, <<"C", "o", "L", "o", "r">>, <<"N", "U", "M">>,
      <<"t", "x">>, <<>> }

CommandQueries ==
    { <<"h", "e", "l", "p">>, <<"O", "p", "T">>, <<"h", "e", "l">>, <<"c", "o", "l", "o", "r">> }

\* parse.c:35-39: register_option(o), o not registered before
RegisterAny ==
    /\ Len(option_list) < MaxRegs
    /\ \E o \in RegPool :
         /\ \A i \in 1..Len(registered) : registered[i] # o
         /\ option_list' = register_option(option_list, o)
         /\ registered' = Append(registered, o)
    /\ UNCHANGED <<interactive_call, stack, call, pc_ret, cmd_ret, out, errs>>
    /\ UNCHANGED <<found, parsed, argst, reader>>
    /\ UNCHANGED tokvars
    /\ UNCHANGED evvars

\* what a find call answered: hit is <<>> for NULL, <<e>> for the entry e
Answer(list, idx) == IF idx = 0 THEN <<>> ELSE <<list[idx]>>

\* parse.c:41-50: find_option(name)
FindOption ==
    /\ \E name \in OptionQueries :
         found' = [what |-> "option", name |-> name,
                   hit |-> Answer(option_list, find_option(option_list, name)),
                   regs |-> Len(registered)]
    /\ UNCHANGED <<registered, parsed, argst, reader, errs>>
    /\ UNCHANGED dispvars
    /\ UNCHANGED tokvars
    /\ UNCHANGED evvars

\* parse.c:86-95: find_command(name)
FindCommand ==
    /\ \E name \in CommandQueries :
         found' = [what |-> "command", name |-> name,
                   hit |-> Answer(all_commands, find_command(name)),
                   regs |-> Len(registered)]
    /\ UNCHANGED <<registered, parsed, argst, reader, errs>>
    /\ UNCHANGED dispvars
    /\ UNCHANGED tokvars
    /\ UNCHANGED evvars

\* parse.c:379-409: cmd_opt on an empty argument string
OptList ==
    /\ LET r == cmd_opt(<<>>, option_list, tokens)
       IN /\ out' = r.out
          /\ cmd_ret' = r.ret
          /\ errs' = r.err
    /\ UNCHANGED <<option_list, interactive_call, stack, call, pc_ret>>
    /\ UNCHANGED auxvars
    /\ UNCHANGED tokvars
    /\ UNCHANGED evvars

NextReg == RegisterAny \/ FindOption \/ FindCommand \/ OptList

SpecReg == Init /\ [][NextReg]_vars

(***************************************************************************)
(* parse_option and display_option by themselves, on the three options     *)
(* once they are registered.                                               *)
(***************************************************************************)
BoolWords ==
    { <<>>, <<"1">>, <<"9">>, <<"0">>, <<"t", "r", "u", "e">>, <<"y", "e", "s">>,
      <<"o", "n">>, <<"t", "r", "u", "i", "s", "h">>, <<"f", "a", "l", "s", "e">>,
      <<"n", "o">>, <<"o", "f", "f">>, <<"0", "f", "o", "o">>, <<"T">>, <<"Y", "e", "s">>,
      <<"O", "n">>, <<"o", "N">>, <<"o">>, <<"-", "1">>, <<"x", "1">>, <<" ", "1">> }

TextWords ==
    { <<>>, <<"a">>, <<"a", " ", " ", "b">>,
      Rep("x", OptTextSize - 2) \o <<"y">>,
      Rep("x", OptTextSize - 1) \o <<"y">>,
      Rep("x", OptTextSize) \o <<"y", "z">>,
      Rep("w", 200) }

NumWords ==
    { <<"0", "x", "2", "A">>, <<"4", "2">>, <<"0", "x", "f", "f", "f", "f">>,
      <<"7", "0", "0", "0", "0">>, <<"0", "-", "1">>, <<"a", "+", "b", "-", "c">>,
      <<"z", "z">>, <<"2", "+", "z", "z">>, <<>>, <<"6", "5", "5", "3", "6">>,
      <<"m", "+", "1">>, <<"2", " ", "+", "3">>, <<"0">> }

WordsFor(type) ==
    CASE type = "boolean" -> BoolWords
      [] type = "numeric" -> NumWords
      [] type = "text" -> TextWords

\* parse.c:425-428 and the application's registrations have run
InitParse ==
    /\ option_list = <<option_txt, option_num, option_color>>
    /\ registered = <<option_color, option_num, option_txt>>
    /\ interactive_call = 0
    /\ token_buf = <<>>
    /\ token_len = 0
    /\ token_mult = 0
    /\ token_sum = 0
    /\ ev_pc = "idle"
    /\ ev_text = <<>>
    /\ ev_pos = 1
    /\ ev_ret = 0
    /\ ev_addr = NotStored
    /\ lookups = <<>>
    /\ stack = <<>>
    /\ call = NoCall
    /\ pc_ret = 0
    /\ cmd_ret = 0
    /\ out = <<>>
    /\ errs = <<>>
    /\ found = NoFind
    /\ parsed = NoParse
    /\ argst = NoArgs
    /\ reader = NoReader

\* parse.c:358-377: parse_option(o, word) on a registered option
ParseWord ==
    /\ \E i \in 1..Len(option_list) :
         \E word \in WordsFor(option_list[i].type) :
            LET r == parse_option(option_list[i], word, tokens)
            IN /\ option_list' = [option_list EXCEPT ![i] = r.o]
               /\ SetTokens(r.tk)
               /\ errs' = r.err
               /\ parsed' = [name |-> option_list[i].name, type |-> option_list[i].type,
                             word |-> word, ret |-> r.ret,
                             buf |-> IF option_list[i].type = "text"
                                     THEN text_buffer(word) ELSE <<>>]
    /\ out' = <<>>
    /\ UNCHANGED <<interactive_call, stack, call, pc_ret, cmd_ret>>
    /\ UNCHANGED <<registered, found, argst, reader>>
    /\ UNCHANGED evvars

\* parse.c:336-356: display_option on the option parsed last
ShowOption ==
    /\ parsed.type # "none"
    /\ out = <<>>
    /\ out' = <<display_option(option_list[find_option(option_list, parsed.name)])>>
    /\ UNCHANGED <<option_list, interactive_call, stack, call, pc_ret, cmd_ret, errs>>
    /\ UNCHANGED auxvars
    /\ UNCHANGED tokvars
    /\ UNCHANGED evvars

NextParse == ParseWord \/ ShowOption

SpecParse == InitParse /\ [][NextParse]_vars

(***************************************************************************)
(* get_arg by itself: a caller takes the arguments of a text one by one,   *)
(* each call starting at the cursor the call before left.                  *)
(***************************************************************************)
MaxPieces == 4
MaxArgCalls == 4

Pieces == { <<"a">>, <<"b", "c">>, <<" ">>, <<"\t", "\n">> }

RECURSIVE PieceTexts(_)
PieceTexts(n) ==
    IF n = 0 THEN {<<>>}
    ELSE {t \o p : t \in PieceTexts(n - 1), p \in Pieces}

ArgTexts == UNION {PieceTexts(n) : n \in 0..MaxPieces}

\* a caller sets its cursor to the start of a text
ArgStart ==
    /\ \E text \in ArgTexts : argst' = [text |-> text, cursor |-> text, got |-> <<>>]
    /\ UNCHANGED <<registered, found, parsed, reader, errs>>
    /\ UNCHANGED dispvars
    /\ UNCHANGED tokvars
    /\ UNCHANGED evvars

\* parse.c:59-84: get_arg(&cursor)
GetArg ==
    /\ Len(argst.got) < MaxArgCalls
    /\ LET a == get_arg(argst.cursor)
       IN argst' = [argst EXCEPT
                      !.cursor = a.rest,
                      !.got = Append(@, [found |-> a.found, tok |-> a.tok,
                                         before |-> argst.cursor, after |-> a.rest])]
    /\ UNCHANGED <<registered, found, parsed, reader, errs>>
    /\ UNCHANGED dispvars
    /\ UNCHANGED tokvars
    /\ UNCHANGED evvars

NextArg == ArgStart \/ GetArg

SpecArg == Init /\ [][NextArg]_vars

(***************************************************************************)
(* reader_loop and the readline of parse.c:131-155.  reader.stdin is what  *)
(* is left of standard input, reader.buf what readline returned: <<>> for  *)
(* NULL, <<line>> for a line.  The lines go through process_command and    *)
(* the handlers above.                                                     *)
(***************************************************************************)
LINE_BUF_SIZE == 128
MaxLines == 2
MaxReadErrors == 1

InputLines ==
    { <<"\n">>,
      <<"b", "o", "g", "u", "s", "\n">>,
      <<"o", "p", "t", " ", "n", "o", "s", "u", "c", "h", "\n">>,
      <<"o", "p", "t", " ", "c", "o", "l", "o", "r", " ", "1", "\n">>,
      <<"h", "e", "l", "p", "\n">>,
      <<"r", "e", "a", "d", " ", "x", "\n">>,
      <<"o", "p", "t">>,
      Rep("z", LINE_BUF_SIZE + 2) \o <<"\n">> }

RECURSIVE Inputs(_)
Inputs(n) ==
    IF n = 0 THEN {<<>>}
    ELSE {t \o l : t \in Inputs(n - 1), l \in InputLines}

Stdins == UNION {Inputs(n) : n \in 0..MaxLines}

\* fgets(buf, LINE_BUF_SIZE, stdin) on input that is not at its end: the
\* characters up to and with the first newline, LINE_BUF_SIZE - 1 at most
fgets(input) ==
    LET N == {i \in 1..Len(input) : input[i] = "\n"}
        nl == IF N = {} THEN Len(input) ELSE CHOOSE i \in N : \A j \in N : i <= j
    IN SubSeq(input, 1, IF nl < LINE_BUF_SIZE - 1 THEN nl ELSE LINE_BUF_SIZE - 1)

\* a failed command ends the loop
after_command_stop(ret) == IF ret < 0 THEN "end" ELSE "read"

\* parse.c:172-174: where the loop goes when process_command returned ret
after_command(ret) == "read"

ReaderStep ==
    /\ UNCHANGED <<registered, found, parsed, argst>>
    /\ UNCHANGED tokvars
    /\ UNCHANGED evvars

\* parse.c:160-163: reader_loop is entered and lists the commands
ReaderEnter ==
    /\ reader.pc = "out"
    /\ \E input \in Stdins :
         reader' = [NoReader EXCEPT !.pc = "read", !.input = input, !.stdin = input]
    /\ out' = cmd_help(<<>>, option_list).out
    /\ UNCHANGED <<option_list, interactive_call, stack, call, pc_ret, cmd_ret, errs>>
    /\ ReaderStep

\* parse.c:133-138: malloc fails and readline returns NULL
ReadLineNoMem ==
    /\ reader.pc = "read"
    /\ reader' = [reader EXCEPT !.pc = "got", !.buf = <<>>]
    /\ UNCHANGED <<errs>>
    /\ UNCHANGED dispvars
    /\ ReaderStep

\* parse.c:144-145: fgets reads a line and readline returns it
ReadLineGot ==
    /\ reader.pc = "read"
    /\ reader.stdin # <<>>
    /\ reader' = [reader EXCEPT
                     !.pc = "got",
                     !.buf = <<fgets(reader.stdin)>>,
                     !.acquired = Append(@, fgets(reader.stdin)),
                     !.stdin = SubSeq(@, Len(fgets(reader.stdin)) + 1, Len(@))]
    /\ UNCHANGED <<errs>>
    /\ UNCHANGED dispvars
    /\ ReaderStep

\* parse.c:144-150: fgets fails, stdin not at its end; readline tries again
ReadLineError ==
    /\ reader.pc = "read"
    /\ reader.errors < MaxReadErrors
    /\ reader' = [reader EXCEPT !.errors = @ + 1]
    /\ UNCHANGED <<errs>>
    /\ UNCHANGED dispvars
    /\ ReaderStep

\* parse.c:144-154: fgets fails at the end of stdin and readline returns NULL
ReadLineEof ==
    /\ reader.pc = "read"
    /\ reader.stdin = <<>>
    /\ reader' = [reader EXCEPT !.pc = "got", !.buf = <<>>, !.eof = TRUE]
    /\ UNCHANGED <<errs>>
    /\ UNCHANGED dispvars
    /\ ReaderStep

\* parse.c:168-169: no line, the loop ends
ReaderBreak ==
    /\ reader.pc = "got"
    /\ reader.buf = <<>>
    /\ reader' = [reader EXCEPT !.pc = "end"]
    /\ UNCHANGED <<errs>>
    /\ UNCHANGED dispvars
    /\ ReaderStep

\* parse.c:171-172: process_command(buf, 1)
ReaderCall ==
    /\ reader.pc = "got"
    /\ reader.buf # <<>>
    /\ NewCall(reader.buf[1], 1)
    /\ reader' = [reader EXCEPT !.pc = "wait"]
    /\ UNCHANGED <<registered, found, parsed, argst>>

\* parse.c:172-174: process_command has returned; the line is freed
ReaderFree ==
    /\ reader.pc = "wait"
    /\ call.st = "done"
    /\ stack = <<>>
    /\ reader' = [reader EXCEPT
                     !.pc = after_command(pc_ret),
                     !.buf = IF after_command(pc_ret) = "read" THEN <<>> ELSE @,
                     !.passed = Append(@, [line |-> call.line,
                                           interactive |-> call.interactive,
                                           ret |-> pc_ret, handler |-> cmd_ret])]
    /\ UNCHANGED <<errs>>
    /\ UNCHANGED dispvars
    /\ ReaderStep

NextReader ==
    \/ ReaderEnter
    \/ ReadLineNoMem
    \/ ReadLineGot
    \/ ReadLineError
    \/ ReadLineEof
    \/ ReaderBreak
    \/ ReaderCall
    \/ ProcessCommand
    \/ CmdOpt
    \/ CmdHelp
    \/ CmdRead
    \/ ReaderFree

SpecReader == InitParse /\ [][NextReader]_vars

Next ==
    \/ RegisterOption
    \/ TopCall
    \/ NestedCall
    \/ ProcessCommand
    \/ CmdOpt
    \/ CmdHelp
    \/ CmdRead

Spec == Init /\ [][Next]_vars

(***************************************************************************)
(* The terms of an expression text, read off the text itself: a term is a  *)
(* maximal run of term characters, of which the evaluator keeps the first  *)
(* TokenBufSize - 1.                                                       *)
(***************************************************************************)
TermStarts(text) ==
    {i \in 1..Len(text) : IsTermChar(text[i]) /\ (i = 1 \/ ~IsTermChar(text[i - 1]))}

TermEnd(text, i) ==
    CHOOSE j \in i..Len(text) :
        /\ \A k \in i..j : IsTermChar(text[k])
        /\ (j = Len(text) \/ ~IsTermChar(text[j + 1]))

TermAt(text, i) ==
    LET e == TermEnd(text, i)
        cut == i + TokenBufSize - 2
    IN SubSeq(text, i, IF e < cut THEN e ELSE cut)

IsDecimal(t) == \A k \in 1..Len(t) : t[k] \in Range(DigitSeq)
IsHex(t) == ~IsDecimal(t) /\ Len(t) >= 2 /\ t[1] = "0" /\ t[2] \in {"x", "X"}
IsSymbol(t) == ~IsDecimal(t) /\ ~IsHex(t)

Unresolved(t) == IsSymbol(t) /\ t \notin SymNames
HasUnresolved(text) == \E i \in TermStarts(text) : Unresolved(TermAt(text, i))

TermValue(t) ==
    IF IsDecimal(t) THEN atoi(t)
    ELSE IF IsHex(t) THEN strtol16(SubSeq(t, 3, Len(t)))
    ELSE SymValue(t)

\* the sign in force at position i: that of the nearest '+' or '-' before it
SignAt(text, i) ==
    LET S == {k \in 1..(i - 1) : text[k] \in {"+", "-"}}
    IN IF S = {} THEN 1
       ELSE IF text[CHOOSE k \in S : \A j \in S : j <= k] = "-" THEN -1 ELSE 1

RECURSIVE SumOver(_, _)
SumOver(text, S) ==
    IF S = {} THEN 0
    ELSE LET i == CHOOSE k \in S : TRUE
         IN SignAt(text, i) * TermValue(TermAt(text, i)) + SumOver(text, S \ {i})

SignedSum(text) == SumOver(text, TermStarts(text))

EvalDone == ev_pc = "done"

(***************************************************************************)
(* C4: if a term of the text is an unresolved symbol, addr_exp returns     *)
(* failure and the caller's cell is not written, wherever the term stands. *)
(* parse_option passes the numeric option's own cell as that cell.         *)
(***************************************************************************)
C4_UnresolvedAborts ==
    (EvalDone /\ HasUnresolved(ev_text)) => (ev_ret = -1 /\ ev_addr = NotStored)

C4_Witness ==
    /\ EvalDone
    /\ ev_text = <<"a", "+", "z", "z", "+", "2">>
    /\ ev_ret = -1
    /\ ev_addr = NotStored
    /\ token_sum = 5

(***************************************************************************)
(* C5: a successful evaluation has accumulated the sum over its terms of   *)
(* sign * value, the sign of a term being that of the nearest '+' or '-'   *)
(* before it (+1 when there is none), the last term included: "2+3" gives  *)
(* 5, "0x10-1" gives 15, "a+b-c" gives 6.                                  *)
(***************************************************************************)
C5_SignedSum ==
    /\ (EvalDone /\ ev_ret = 0) => token_sum = SignedSum(ev_text)
    /\ (EvalDone /\ ev_text = <<"2", "+", "3">>) => (ev_ret = 0 /\ ev_addr = <<5>>)
    /\ (EvalDone /\ ev_text = <<"0", "x", "1", "0", "-", "1">>)
          => (ev_ret = 0 /\ ev_addr = <<15>>)
    /\ (EvalDone /\ ev_text = <<"a", "+", "b", "-", "c">>) => (ev_ret = 0 /\ ev_addr = <<6>>)

C5_Witness ==
    /\ EvalDone
    /\ ev_text = <<"5", "-", "1", " ", "2">>
    /\ ev_ret = 0
    /\ token_sum = 2
    /\ token_mult = -1

(***************************************************************************)
(* C6: an evaluation whose terms all resolve succeeds whatever its sum,    *)
(* and returns the sum reduced modulo 2^16, a value in 0..65535: 70000     *)
(* gives 4464 and -1 gives 65535.                                          *)
(***************************************************************************)
C6_Wraps16 ==
    /\ (EvalDone /\ ~HasUnresolved(ev_text)) =>
          /\ ev_ret = 0
          /\ Len(ev_addr) = 1
          /\ ev_addr[1] \in 0..65535
          /\ \E k \in -2..2 : token_sum = ev_addr[1] + k * 65536
    /\ (EvalDone /\ token_sum = 70000 /\ ev_ret = 0) => ev_addr = <<4464>>
    /\ (EvalDone /\ token_sum = -1 /\ ev_ret = 0) => ev_addr = <<65535>>
    /\ (EvalDone /\ ev_text = <<"0", "-", "1">>) => token_sum = -1

C6_Witness ==
    /\ EvalDone
    /\ ev_text = <<"0", "-", "1", "+", "7", "0", "0", "0", "1">>
    /\ token_sum = 70000
    /\ ev_ret = 0
    /\ ev_addr = <<4464>>

(***************************************************************************)
(* C7: a term is resolved as decimal when all its characters are digits,   *)
(* else as hexadecimal when it starts with "0x" or "0X", else by the       *)
(* symbol table.  stab_get is asked for nothing but the terms of the third *)
(* kind, and the evaluation fails exactly when one of them is unknown.     *)
(***************************************************************************)
SymbolTerms(text) ==
    {t \in {TermAt(text, i) : i \in TermStarts(text)} : IsSymbol(t)}

C7_ResolutionOrder ==
    /\ \A k \in 1..Len(lookups) : IsSymbol(lookups[k])
    /\ EvalDone =>
          /\ Range(lookups) \subseteq SymbolTerms(ev_text)
          /\ (ev_ret = -1) <=> HasUnresolved(ev_text)
          /\ ev_ret = 0 => Range(lookups) = SymbolTerms(ev_text)
          /\ (ev_ret = 0 /\ TermStarts(ev_text) = {1} /\ Len(ev_text) < TokenBufSize)
                => token_sum = TermValue(TermAt(ev_text, 1))

C7_Witness ==
    /\ EvalDone
    /\ ev_text = <<"0", "x", "z">>
    /\ <<"0", "x", "z">> \in SymNames
    /\ ev_ret = 0
    /\ lookups = <<>>
    /\ ev_addr = <<0>>

(***************************************************************************)
(* C9: every evaluation starts with an empty token, sum 0 and sign +1, and *)
(* its outcome is what the same text gives as the first evaluation of the  *)
(* process, whatever evaluations came before.                              *)
(***************************************************************************)
StartTokens == [token_buf |-> <<>>, token_len |-> 0, token_mult |-> 0, token_sum |-> 0]

C9_FreshEachTime ==
    /\ (ev_pc = "loop" /\ ev_pos = 1) =>
          (token_len = 0 /\ token_sum = 0 /\ token_mult = 1)
    /\ EvalDone =>
          LET first == addr_exp(StartTokens, ev_text)
          IN /\ ev_ret = first.ret
             /\ ev_addr = (IF first.written THEN <<first.addr>> ELSE NotStored)
             /\ errs = first.err

\* an evaluation of the empty text that followed a failed one, whose last
\* token is still in the buffer
C9_Witness ==
    /\ EvalDone
    /\ ev_text = <<>>
    /\ token_buf = <<"z", "z">>
    /\ ev_ret = 0
    /\ ev_addr = <<0>>

(***************************************************************************)
(* C8: each evaluation has tokenizer state of its own, so an evaluation    *)
(* that starts while another is in progress (here from inside the symbol   *)
(* resolution call) changes neither the outer evaluation's sum and sign    *)
(* nor its result: the outer call returns what it returns alone.           *)
(***************************************************************************)
C8_NestedLeavesOuter ==
    EvalDone =>
        LET alone == addr_exp(StartTokens, ev_text)
        IN /\ ev_ret = alone.ret
           /\ ev_addr = (IF alone.written THEN <<alone.addr>> ELSE NotStored)

(***************************************************************************)
(* A line, read off the line itself: whether it is blank, its first word   *)
(* and what follows that word and the whitespace after it.                 *)
(***************************************************************************)
Blank(line) == \A i \in 1..Len(line) : isspace(line[i])

WordStart(line) ==
    CHOOSE i \in 1..Len(line) : ~isspace(line[i]) /\ \A k \in 1..(i - 1) : isspace(line[k])

WordEnd(line) ==
    CHOOSE j \in WordStart(line)..Len(line) :
        /\ \A k \in WordStart(line)..j : ~isspace(line[k])
        /\ (j = Len(line) \/ isspace(line[j + 1]))

FirstWord(line) == SubSeq(line, WordStart(line), WordEnd(line))

AfterWord(line) ==
    LET rest == {k \in (WordEnd(line) + 1)..Len(line) : ~isspace(line[k])}
    IN IF rest = {} THEN <<>>
       ELSE SubSeq(line, CHOOSE k \in rest : \A j \in rest : k <= j, Len(line))

KnownCommand(word) ==
    \E k \in 1..Len(all_commands) : Lower(all_commands[k].name) = Lower(word)

CallDone == call.st = "done"

(***************************************************************************)
(* C1: once the first word of the line names a command, process_command    *)
(* returns 0 after the handler returns, whatever the handler returned.     *)
(***************************************************************************)
C1_HandlerFailureSwallowed ==
    (CallDone /\ ~Blank(call.line) /\ KnownCommand(FirstWord(call.line)))
        => pc_ret = 0

C1_Witness ==
    /\ CallDone
    /\ call.line = <<"o", "p", "t", " ", "n", "o", "s", "u", "c", "h", " ", "1">>
    /\ cmd_ret = -1
    /\ pc_ret = 0
    /\ errs # <<>>

(***************************************************************************)
(* C2: the interactive flag is the interactive argument of the innermost   *)
(* active process_command call, and its initial value when no call is      *)
(* active; so a returning call leaves the flag as it was before the call,  *)
(* at every depth.                                                         *)
(***************************************************************************)
is_interactive == interactive_call

C2_FlagStack ==
    is_interactive = (IF stack = <<>> THEN 0 ELSE stack[Len(stack)].interactive)

\* a nested call with the other flag value has returned to a running handler
C2_Witness ==
    /\ Len(stack) = 1
    /\ stack[1].interactive = 1
    /\ CallDone
    /\ call.interactive = 0
    /\ call.cmd # 0
    /\ is_interactive = 1

(***************************************************************************)
(* C3: process_command on a line whose first word names no command returns *)
(* -1, writes one diagnostic line, invokes no handler and leaves the flag  *)
(* and the options alone; on a blank line it returns 0 and changes and     *)
(* writes nothing.                                                         *)
(***************************************************************************)
C3_UnknownAndBlank ==
    [][ call.st = "pending" =>
          /\ Blank(call.line) =>
                /\ pc_ret' = 0
                /\ call'.st = "done"
                /\ UNCHANGED <<stack, interactive_call, option_list, cmd_ret, out, errs>>
                /\ UNCHANGED tokvars
          /\ (~Blank(call.line) /\ ~KnownCommand(FirstWord(call.line))) =>
                /\ pc_ret' = -1
                /\ call'.st = "done"
                /\ errs' = errs \o << <<"unknown command", FirstWord(call.line)>> >>
                /\ UNCHANGED <<stack, interactive_call, option_list, cmd_ret, out>>
                /\ UNCHANGED tokvars
      ]_vars

C3_Witness ==
    /\ CallDone
    /\ call.line = <<" ", "f", "r", "o", "b", " ", "c", "o", "l", "o", "r", " ", "1", "\n">>
    /\ pc_ret = -1
    /\ errs = << <<"unknown command", <<"f", "r", "o", "b">>>> >>
    /\ \E i \in 1..Len(option_list) :
          option_list[i].type = "boolean" /\ option_list[i].data = 1

(***************************************************************************)
(* C10: the options change only in the opt command given a known name and  *)
(* a value: it sets that option alone, from the whole text after the name. *)
(* With an unknown name it fails and changes nothing; with no value it     *)
(* displays and changes nothing; a numeric value that does not evaluate    *)
(* makes it fail.                                                          *)
(***************************************************************************)
Named(name) == {i \in 1..Len(option_list) : Lower(option_list[i].name) = Lower(name)}

InOpt == call.st = "active" /\ stack[Len(stack)].func = "cmd_opt"

OptSets(i, value) ==
    /\ Len(option_list') = Len(option_list)
    /\ \A j \in 1..Len(option_list) : j # i => option_list'[j] = option_list[j]
    /\ option_list'[i].name = option_list[i].name
    /\ option_list'[i].type = option_list[i].type
    /\ CASE option_list[i].type = "text" ->
              /\ cmd_ret' = 0
              /\ Len(value) < OptTextSize => option_list'[i].data = value
         [] option_list[i].type = "boolean" ->
              /\ cmd_ret' = 0
              /\ option_list'[i].data \in {0, 1}
         [] option_list[i].type = "numeric" ->
              IF HasUnresolved(value)
              THEN cmd_ret' = -1 /\ option_list'[i].data = option_list[i].data
              ELSE cmd_ret' = 0 /\ option_list'[i].data = SignedSum(value) % 65536

C10_OptFrame ==
    [][ /\ option_list' # option_list =>
              \/ call.st = "idle"
              \/ /\ InOpt
                 /\ ~Blank(stack[Len(stack)].arg)
                 /\ AfterWord(stack[Len(stack)].arg) # <<>>
                 /\ Named(FirstWord(stack[Len(stack)].arg)) # {}
        /\ InOpt =>
              LET arg == stack[Len(stack)].arg
              IN IF Blank(arg)
                 THEN option_list' = option_list /\ cmd_ret' = 0
                      /\ Len(out') = Len(option_list)
                 ELSE IF Named(FirstWord(arg)) = {}
                 THEN option_list' = option_list /\ cmd_ret' = -1 /\ out' = <<>>
                      /\ errs' # errs
                 ELSE IF AfterWord(arg) = <<>>
                 THEN option_list' = option_list /\ cmd_ret' = 0 /\ Len(out') = 1
                 ELSE \E i \in Named(FirstWord(arg)) : OptSets(i, AfterWord(arg))
      ]_vars

C10_Witness ==
    /\ CallDone
    /\ call.line = <<"o", "p", "t", " ", "t", "x", "t", " ", "a", " ", " ", "b">>
    /\ cmd_ret = 0
    /\ \E i \in 1..Len(option_list) :
          option_list[i].type = "text" /\ option_list[i].data = <<"a", " ", " ", "b">>
    /\ \E j \in 1..Len(option_list) :
          option_list[j].type = "numeric" /\ option_list[j].data = 5

(***************************************************************************)
(* The registry.                                                           *)
(***************************************************************************)
\* the lines display_option prints for the options of the sequence, in order
Shown(opts) == [i \in 1..Len(opts) |-> display_option(opts[i])]

Reversed(q) == [i \in 1..Len(q) |-> q[Len(q) + 1 - i]]

\* a step in which the listing of all options is printed anew
Listing == out' # out

\* C11 as stated: opt with no name displays every registered option exactly
\* once, in the order in which the options were registered.
C11_RegistrationOrder == [][Listing => out' = Shown(registered')]_vars

\* C11 (amended): opt with no name displays every registered option exactly
\* once, the most recently registered first, the first registered last.
C11_NewestFirst == [][Listing => out' = Shown(Reversed(registered'))]_vars

\* three options were registered and listed, the lines all different
C11_Witness ==
    /\ Len(registered) = 3
    /\ Len(out) = 3
    /\ out[1] = display_option(registered[3])
    /\ out[3] = display_option(registered[1])
    /\ out[1] # out[3] /\ out[1] # out[2] /\ out[2] # out[3]

\* the two letters are the same letter, whatever their case
SameLetter(x, y) ==
    \/ x = y
    \/ \E k \in 1..26 : {x, y} = {LowerSeq[k], UpperSeq[k]}

\* the two names are equal ignoring case
SameName(a, b) == Len(a) = Len(b) /\ \A i \in 1..Len(a) : SameLetter(a[i], b[i])

\* the registrations, among the first n, of an option of the name
RegsNamed(name, n) == {k \in 1..n : SameName(registered[k].name, name)}

\* the table entries of the name
CmdsNamed(name) == {k \in 1..Len(all_commands) : SameName(all_commands[k].name, name)}

\* C12: a lookup matches names exactly, ignoring case; find_option answers
\* the most recently registered option of the name, so that an earlier one of
\* the same name is never found, and NULL when there is none; find_command
\* answers the first entry of the name in table order, NULL when there is none.
C12_FirstMatchWins ==
    /\ found.what = "option" =>
          LET regs == RegsNamed(found.name, found.regs)
          IN IF regs = {} THEN found.hit = <<>>
             ELSE found.hit = <<registered[CHOOSE k \in regs : \A j \in regs : j <= k]>>
    /\ found.what = "command" =>
          LET cmds == CmdsNamed(found.name)
          IN IF cmds = {} THEN found.hit = <<>>
             ELSE found.hit = <<all_commands[CHOOSE k \in cmds : \A j \in cmds : k <= j]>>

\* color was registered, then COLOR; a lookup of CoLor found the later one
C12_Witness ==
    /\ found.what = "option"
    /\ found.name = <<"C", "o", "L", "o", "r">>
    /\ Cardinality(RegsNamed(found.name, found.regs)) = 2
    /\ registered[1] = option_color
    /\ found.hit # <<>>
    /\ found.hit[1].type = "numeric"

(***************************************************************************)
(* parse_option.                                                           *)
(***************************************************************************)
\* the option of the name as it is now
OptionNamed(name) == option_list[CHOOSE i \in 1..Len(option_list) : option_list[i].name = name]

\* the word says true
SaysTrue(word) ==
    \/ Len(word) >= 1 /\ word[1] \in {"1", "2", "3", "4", "5", "6", "7", "8", "9", "t", "y"}
    \/ Len(word) >= 2 /\ word[1] = "o" /\ word[2] = "n"

\* C13: parsing a word into a boolean option always succeeds and stores true
\* if and only if the word starts with a digit 1..9, with t, with y, or with
\* on, all in lower case; every other word, the empty one too, stores false.
C13_BooleanWords ==
    parsed.type = "boolean" =>
        /\ parsed.ret = 0
        /\ OptionNamed(parsed.name).data = (IF SaysTrue(parsed.word) THEN 1 ELSE 0)

\* "0foo" was parsed into color while it was true, and color is false
C13_Witness ==
    /\ parsed.type = "boolean"
    /\ parsed.word = <<"0", "f", "o", "o">>
    /\ OptionNamed(parsed.name).data = 0
    /\ out = <<display_option([option_color EXCEPT !.data = 0])>>

\* C14: parsing a word into a text option always succeeds and stores the word
\* unchanged when it fits, otherwise its first capacity-1 characters; the
\* stored text is terminated inside the buffer and no byte is written past it.
C14_TextTruncated ==
    parsed.type = "text" =>
        /\ parsed.ret = 0
        /\ OptionNamed(parsed.name).data =
              (IF Len(parsed.word) <= OptTextSize - 1 THEN parsed.word
               ELSE SubSeq(parsed.word, 1, OptTextSize - 1))
        /\ Len(OptionNamed(parsed.name).data) <= OptTextSize - 1
        /\ Len(parsed.buf) = OptTextSize
        /\ \E i \in 1..OptTextSize : parsed.buf[i] = ""

\* a word of capacity+2 characters was parsed and capacity-1 of them stored
C14_Witness ==
    /\ parsed.type = "text"
    /\ Len(parsed.word) = OptTextSize + 2
    /\ Len(OptionNamed(parsed.name).data) = OptTextSize - 1
    /\ OptionNamed(parsed.name).data # parsed.word

\* the line shows v as 0x<hex> (<decimal>) after the name and " = "
ShowsValue(line, v) ==
    \E k \in 39..(Len(line) - 3) :
        /\ SubSeq(line, 33, 37) = <<" ", "=", " ", "0", "x">>
        /\ \A i \in 38..(k - 1) : line[i] \in Range(HexDigitSeq)
        /\ strtol16(SubSeq(line, 38, k - 1)) = v
        /\ line[38] = "0" => k = 39
        /\ SubSeq(line, k, k + 1) = <<" ", "(">>
        /\ \A i \in (k + 2)..(Len(line) - 1) : isdigit(line[i])
        /\ atoi(SubSeq(line, k + 2, Len(line) - 1)) = v
        /\ line[k + 2] = "0" => k + 2 = Len(line) - 1
        /\ line[Len(line)] = ")"

\* C17: after a successful parse of an expression text into a numeric
\* option, the option holds the text's value cut to 16 bits, in 0..65535,
\* and its display form shows exactly that value in hexadecimal and in
\* decimal; "0x2A" shows 0x2a (42).
C17_NumericRoundTrip ==
    (parsed.type = "numeric" /\ parsed.ret = 0) =>
        LET v == OptionNamed(parsed.name).data
        IN /\ v \in 0..65535
           /\ v = SignedSum(parsed.word) % 65536
           /\ out # <<>> => ShowsValue(out[1], v)
           /\ (out # <<>> /\ parsed.word = <<"0", "x", "2", "A">>) =>
                 SubSeq(out[1], 36, Len(out[1])) =
                     <<"0", "x", "2", "a", " ", "(", "4", "2", ")">>

\* 0-1 was parsed into num and the option displayed
C17_Witness ==
    /\ parsed.type = "numeric"
    /\ parsed.word = <<"0", "-", "1">>
    /\ parsed.ret = 0
    /\ out # <<>>
    /\ SubSeq(out[1], 36, Len(out[1])) =
          <<"0", "x", "f", "f", "f", "f", " ", "(", "6", "5", "5", "3", "5", ")">>

(***************************************************************************)
(* get_arg.                                                                *)
(***************************************************************************)
White(c) == c \in {" ", "\t", "\n", "\r", "\f"}

\* where the words of the text start
WordStarts(text) ==
    {i \in 1..Len(text) : ~White(text[i]) /\ (i = 1 \/ White(text[i - 1]))}

\* where the n-th word starts
NthStart(text, n) ==
    CHOOSE i \in WordStarts(text) : Cardinality({j \in WordStarts(text) : j < i}) = n - 1

\* the word that starts at i: up to the next whitespace or the end
WordFrom(text, i) ==
    LET ends == {j \in i..Len(text) : White(text[j])}
    IN IF ends = {} THEN SubSeq(text, i, Len(text))
       ELSE SubSeq(text, i, (CHOOSE j \in ends : \A k \in ends : j <= k) - 1)

NumWordsOf(text) == Cardinality(WordStarts(text))

\* C15: get_arg skips leading whitespace, returns the maximal run of
\* non-whitespace characters and leaves the cursor at the next
\* non-whitespace character or at the end; with only whitespace or nothing
\* left it returns NULL and leaves the cursor as it was.  Repeated calls
\* yield the words of the text in order, each once, and NULL ever after.
C15_WordsInOrder ==
    \A n \in 1..Len(argst.got) :
        LET g == argst.got[n]
        IN IF n <= NumWordsOf(argst.text)
           THEN /\ g.found
                /\ g.tok = WordFrom(argst.text, NthStart(argst.text, n))
                /\ g.after = (IF n < NumWordsOf(argst.text)
                              THEN SubSeq(argst.text, NthStart(argst.text, n + 1),
                                          Len(argst.text))
                              ELSE <<>>)
                /\ (g.after = <<>> \/ ~White(g.after[1]))
           ELSE /\ ~g.found
                /\ g.after = g.before

\* the two words of " a \t\nbc " were returned, then NULL twice
C15_Witness ==
    /\ argst.text = <<" ", "a", "\t", "\n", "b", "c">>
    /\ Len(argst.got) = 4
    /\ argst.got[1].tok = <<"a">>
    /\ argst.got[2].tok = <<"b", "c">>
    /\ ~argst.got[3].found
    /\ ~argst.got[4].found

(***************************************************************************)
(* What a handler is given.                                                *)
(***************************************************************************)
\* the text without its trailing whitespace
TrimRight(text) ==
    LET N == {i \in 1..Len(text) : ~White(text[i])}
    IN IF N = {} THEN <<>>
       ELSE SubSeq(text, 1, CHOOSE i \in N : \A j \in N : j <= i)

\* C16: the argument text a handler receives from process_command is either
\* empty or begins with a non-whitespace character, has no trailing
\* whitespace, and is the line's text after the command name with the
\* whitespace around it removed and its interior unchanged.
C16_ArgTrimmed ==
    \A k \in 1..Len(stack) :
        LET arg == stack[k].arg
        IN /\ (arg = <<>> \/ (~White(arg[1]) /\ ~White(arg[Len(arg)])))
           /\ arg = TrimRight(AfterWord(stack[k].line))

\* the read handler was given "f  g" and, below it, opt was given its two words
C16_Witness ==
    /\ Len(stack) = 2
    /\ stack[1].line = <<"r", "e", "a", "d", " ", " ", "f", " ", " ", "g", " ", "\t", "\n">>
    /\ stack[1].arg = <<"f", " ", " ", "g">>
    /\ stack[2].arg = <<"n", "u", "m", " ", "0", "x", "1", "0", "-", "1">>

\* C20: whenever cmd_opt is reached through process_command, parse_option
\* is never called without an option: the argument text is empty or starts
\* with a non-whitespace character, so a value text implies a name that was
\* extracted and found.
C20_NoNullOption ==
    /\ call.st # "fault"
    /\ \A k \in 1..Len(stack) :
          stack[k].func = "cmd_opt" =>
              (stack[k].arg = <<>> \/ ~White(stack[k].arg[1]))

\* opt was dispatched with a name and a value, and the value was parsed
C20_Witness ==
    /\ call.st = "done"
    /\ call.line = <<"o", "p", "t", " ", "N", "U", "M", " ", "2", " ", "+", "3">>
    /\ cmd_ret = 0
    /\ \E i \in 1..Len(option_list) :
          option_list[i].name = <<"n", "u", "m">> /\ option_list[i].data = 5

(***************************************************************************)
(* The bounded term buffer.                                                *)
(***************************************************************************)
\* the first TokenBufSize-1 characters of the text
Cut(t) == IF Len(t) < TokenBufSize THEN t ELSE SubSeq(t, 1, TokenBufSize - 1)

\* the term characters read since the last separator before position pos
Pending(text, pos) ==
    LET S == {k \in 1..(pos - 1) : ~IsTermChar(text[k])}
    IN IF S = {} THEN SubSeq(text, 1, pos - 1)
       ELSE SubSeq(text, (CHOOSE k \in S : \A j \in S : j <= k) + 1, pos - 1)

\* where the terms start that are symbols once cut
SymStarts(text) ==
    {i \in TermStarts(text) : IsSymbol(Cut(SubSeq(text, i, TermEnd(text, i))))}

\* the n-th of them, cut
NthSymbol(text, n) ==
    LET i == CHOOSE k \in SymStarts(text) :
                 Cardinality({j \in SymStarts(text) : j < k}) = n - 1
    IN Cut(SubSeq(text, i, TermEnd(text, i)))

\* C18: at most 63 term characters are ever buffered, so the terminator
\* lands inside the 64-byte buffer; the characters of a term after its 63rd
\* are dropped without error, the term resolved is its first 63 characters,
\* and the buffer is empty after each term, nothing carrying over.
C18_BufferBounded ==
    /\ token_len \in 0..(TokenBufSize - 1)
    /\ ev_pc = "loop" =>
          /\ token_len = Len(Cut(Pending(ev_text, ev_pos)))
          /\ SubSeq(token_buf, 1, token_len) = Cut(Pending(ev_text, ev_pos))
    /\ ev_pc # "idle" =>
          /\ Len(lookups) <= Cardinality(SymStarts(ev_text))
          /\ \A n \in 1..Len(lookups) : lookups[n] = NthSymbol(ev_text, n)
    /\ EvalDone =>
          /\ token_len = 0
          /\ ev_ret = 0 => Len(lookups) = Cardinality(SymStarts(ev_text))
          /\ ~HasUnresolved(ev_text) => ev_ret = 0

\* 2 + a term of 70 q's - 1: the first 63 q's were looked up, the value is 8
C18_Witness ==
    /\ EvalDone
    /\ ev_text = <<"2", "+">> \o Rep("q", 70) \o <<"-", "1">>
    /\ ev_ret = 0
    /\ lookups = <<Rep("q", 63)>>
    /\ ev_addr = <<8>>

(***************************************************************************)
(* The reader loop.                                                        *)
(***************************************************************************)
RECURSIVE Flatten(_)
Flatten(q) == IF q = <<>> THEN <<>> ELSE Head(q) \o Flatten(Tail(q))

\* the lines are what a line-by-line reading of the input so far gives
LinesOfInput ==
    /\ Flatten(reader.acquired) \o reader.stdin = reader.input
    /\ \A n \in 1..Len(reader.acquired) :
          LET a == reader.acquired[n]
          IN /\ Len(a) \in 1..(LINE_BUF_SIZE - 1)
             /\ \A i \in 1..(Len(a) - 1) : a[i] # "\n"
             /\ \/ a[Len(a)] = "\n"
                \/ Len(a) = LINE_BUF_SIZE - 1
                \/ (n = Len(reader.acquired) /\ reader.stdin = <<>>)

\* C19: the reader loop passes every acquired line to process_command
\* exactly once, in the order acquired and with the interactive flag 1; a
\* dispatch or a handler that fails neither ends the loop nor skips a line;
\* the loop ends exactly when readline returns NULL.
C19_EveryLineOnce ==
    /\ LinesOfInput
    /\ \A n \in 1..Len(reader.passed) :
          /\ reader.passed[n].line = reader.acquired[n]
          /\ reader.passed[n].interactive = 1
    /\ reader.pc = "wait" =>
          /\ Len(reader.passed) = Len(reader.acquired) - 1
          /\ call.line = reader.acquired[Len(reader.acquired)]
          /\ call.interactive = 1
          /\ stack # <<>> => interactive_call = 1
    /\ reader.pc \in {"read", "end"} => Len(reader.passed) = Len(reader.acquired)
    /\ reader.pc = "end" => reader.buf = <<>>
    /\ reader.pc = "wait" => reader.buf # <<>>
    /\ (reader.pc = "end" /\ reader.eof) => Flatten(reader.acquired) = reader.input

\* an unknown command, then a failing opt; both were passed on and the loop
\* ended at the end of the input
C19_Witness ==
    /\ reader.pc = "end"
    /\ reader.eof
    /\ Len(reader.passed) = 2
    /\ reader.passed[1].line = <<"b", "o", "g", "u", "s", "\n">>
    /\ reader.passed[1].ret = -1
    /\ reader.passed[2].line = <<"o", "p", "t", " ", "n", "o", "s", "u", "c", "h", "\n">>
    /\ reader.passed[2].handler = -1
====
